---- MODULE Spec2Model ----
(***************************************************************************)
(* The ticket reporting pipeline of pmp-ticket-dashboard:                  *)
(*   dashboard.py  load_dashboard_data -> view selection -> date window    *)
(*                 -> filtered_df -> KPIs, closure rate, ownership table,  *)
(*                 category percentage view, level/status chart            *)
(*   app.py        load -> current week -> weekly_df -> top summary ->     *)
(*                 level movement summary                                  *)
(* Both are straight-line scripts; one behaviour of the model is one run   *)
(* of one script over one input file and one pair of clock readings.       *)
(*                                                                         *)
(* Calendar dates are proleptic Gregorian ordinals (date.toordinal()), a   *)
(* timestamp is a day ordinal plus minutes since midnight, NaT is a        *)
(* timestamp with nat = TRUE, and a missing cell (NaN) is the value NaN.   *)
(***************************************************************************)
EXTENDS Integers, Sequences, FiniteSets

VARIABLES script, pc, raw, clock_load, clock_run, df, view, today,
          start_date, end_date, filtered_df,
          total_tickets, open_tickets, closed_tickets, in_progress,
          closure, ownership, cat_view, cat, level_status, level_summary,
          divisions, err

vars == <<script, pc, raw, clock_load, clock_run, df, view, today,
          start_date, end_date, filtered_df,
          total_tickets, open_tickets, closed_tickets, in_progress,
          closure, ownership, cat_view, cat, level_status, level_summary,
          divisions, err>>

(***************************************************************************)
(* Bounds of the model.                                                    *)
(***************************************************************************)
\* rows of the input file in the window specifications
MaxRowsW == 2
\* rows of the input file in the aggregation specification
MaxRows == 3

(***************************************************************************)
(* datetime.date arithmetic, as CPython's datetime module computes it.     *)
(***************************************************************************)
IsLeap(y) == y % 4 = 0 /\ (y % 100 # 0 \/ y % 400 = 0)

DaysBeforeYear(y) ==
    LET p == y - 1 IN p * 365 + (p \div 4) - (p \div 100) + (p \div 400)

DaysInMonth(y, m) ==
    IF m = 2 THEN (IF IsLeap(y) THEN 29 ELSE 28)
    ELSE IF m \in {4, 6, 9, 11} THEN 30 ELSE 31

DaysBeforeMonth(y, m) ==
    <<0, 31, 59, 90, 120, 151, 181, 212, 243, 273, 304, 334>>[m]
        + (IF m > 2 /\ IsLeap(y) THEN 1 ELSE 0)

\* date(y, m, d).toordinal()
Ymd2Ord(y, m, d) == DaysBeforeYear(y) + DaysBeforeMonth(y, m) + d

\* date.fromordinal(n) as <<year, month, day>> (datetime._ord2ymd)
Ord2Ymd(n) ==
    LET n0   == n - 1
        n400 == n0 \div 146097
        r400 == n0 % 146097
        n100 == r400 \div 36524
        r100 == r400 % 36524
        n4   == r100 \div 1461
        r4   == r100 % 1461
        n1   == r4 \div 365
        r1   == r4 % 365
        year == n400 * 400 + 1 + n100 * 100 + n4 * 4 + n1
        leap == n1 = 3 /\ (n4 # 24 \/ n100 = 3)
        m0   == (r1 + 50) \div 32
        p0   == <<0, 31, 59, 90, 120, 151, 181, 212, 243, 273, 304, 334>>[m0]
                  + (IF m0 > 2 /\ leap THEN 1 ELSE 0)
        dim  == <<31, 28, 31, 30, 31, 30, 31, 31, 30, 31, 30, 31>>
        m1   == IF p0 > r1 THEN m0 - 1 ELSE m0
        p1   == IF p0 > r1
                THEN p0 - (dim[m1] + (IF m1 = 2 /\ leap THEN 1 ELSE 0))
                ELSE p0
    IN  IF n1 = 4 \/ n100 = 4
        THEN <<year - 1, 12, 31>>
        ELSE <<year, m1, r1 - p1 + 1>>

YearOf(n) == Ord2Ymd(n)[1]
MonthOf(n) == Ord2Ymd(n)[2]
DayOf(n) == Ord2Ymd(n)[3]

\* date.weekday(): Monday = 0 .. Sunday = 6
Weekday(n) == (n + 6) % 7

\* datetime._isoweek1monday(year)
IsoWeek1Monday(y) ==
    LET firstday     == Ymd2Ord(y, 1, 1)
        firstweekday == (firstday + 6) % 7
        week1monday  == firstday - firstweekday
    IN  IF firstweekday > 3 THEN week1monday + 7 ELSE week1monday

\* date.isocalendar() as [year, week, weekday]
IsoCalendar(n) ==
    LET y    == YearOf(n)
        w1   == IsoWeek1Monday(y)
        week == (n - w1) \div 7
        day  == (n - w1) % 7
    IN  IF week < 0
        THEN LET w0 == IsoWeek1Monday(y - 1)
             IN  [year |-> y - 1, week |-> ((n - w0) \div 7) + 1,
                  weekday |-> ((n - w0) % 7) + 1]
        ELSE IF week >= 52 /\ n >= IsoWeek1Monday(y + 1)
        THEN [year |-> y + 1, week |-> 1, weekday |-> day + 1]
        ELSE [year |-> y, week |-> week + 1, weekday |-> day + 1]

\* today.replace(day=1)
ReplaceDay1(n) == Ymd2Ord(YearOf(n), MonthOf(n), 1)

\* today.replace(month=1, day=1)
ReplaceMonth1Day1(n) == Ymd2Ord(YearOf(n), 1, 1)

(***************************************************************************)
(* The input file.  A row carries the text of its "Request Date" cell and  *)
(* its Status, L1/L2/L3 and Category cells.  The date text is either       *)
(* "DD/MM/YYYY[ HH:MM]" (txt = "dmy", with the numbers written in it, which *)
(* need not form a calendar date), an empty cell or other text.            *)
(***************************************************************************)
NaN == "NaN"

Row(d, m, y, tod, status, level, category) ==
    [txt |-> "dmy", d |-> d, m |-> m, y |-> y, tod |-> tod,
     status |-> status, level |-> level, category |-> category]

TextRow(txt, status, level, category) ==
    [txt |-> txt, d |-> 0, m |-> 0, y |-> 0, tod |-> 0,
     status |-> status, level |-> level, category |-> category]

NaT == [nat |-> TRUE, day |-> 0, tod |-> 0]

\* (variant: a lenient parser that rolls a day past the month's end over)
ToDatetimeLenient(r) ==
    IF r.txt = "dmy" /\ r.m \in 1..12 /\ r.d >= 1
    THEN [nat |-> FALSE, day |-> Ymd2Ord(r.y, r.m, 1) + (r.d - 1), tod |-> r.tod]
    ELSE NaT

\* pd.to_datetime(cell, dayfirst=True, errors="coerce"): the timestamp the
\* text denotes, NaT when it denotes none
ToDatetime(r) ==
    IF r.txt = "dmy" /\ r.m \in 1..12 /\ r.d \in 1..DaysInMonth(r.y, r.m)
    THEN [nat |-> FALSE, day |-> Ymd2Ord(r.y, r.m, r.d), tod |-> r.tod]
    ELSE NaT

\* the frame right after parsing: one record per row, labelled by its position
ParsedFrame(rows) ==
    [i \in 1..Len(rows) |->
        [idx |-> i, ts |-> ToDatetime(rows[i]), status |-> rows[i].status,
         level |-> rows[i].level, category |-> rows[i].category]]

\* (variant: no year filter)
AnyYear(ts, current_year) == ~ts.nat

\* Series.dt.year == current_year (NaT has no year and compares unequal)

SameYear(ts, current_year) == ~ts.nat /\ YearOf(ts.day) = current_year

\* Series.dt.normalize()
Normalize(frame) ==
    [i \in 1..Len(frame) |-> [frame[i] EXCEPT !.ts.tod = 0]]

\* load_dashboard_data(): parse, dropna, keep the current year, normalize
LoadDashboardFrame(rows, current_year) ==
    LET parsed  == ParsedFrame(rows)
        dropped == SelectSeq(parsed, LAMBDA r : ~r.ts.nat)
        kept    == SelectSeq(dropped, LAMBDA r : SameYear(r.ts, current_year))
    IN  Normalize(kept)

(***************************************************************************)
(* View selection and the date window (dashboard.py).                      *)
(***************************************************************************)
ViewOptions == {"This Week", "Last Week", "This Month", "This Year"}

\* (variant: weeks that start on Sunday)
ThisWeekStartSundayBased(t) == t - ((Weekday(t) + 1) % 7)

\* today - timedelta(days=today.weekday())
ThisWeekStart(t) == t - Weekday(t)

\* _strptime._calc_julian_from_V(iso_year, iso_week, iso_weekday), then the
\* date strptime builds from the year and the day of the year
StrptimeGVu(iso_year, iso_week, iso_weekday) ==
    LET correction == ((Ymd2Ord(iso_year, 1, 4) + 6) % 7) + 1 + 3
        ordinal    == iso_week * 7 + iso_weekday - correction
        y1         == IF ordinal < 1 THEN iso_year - 1 ELSE iso_year
        o1         == IF ordinal < 1
                      THEN ordinal + Ymd2Ord(iso_year, 1, 1) - Ymd2Ord(iso_year - 1, 1, 1)
                      ELSE ordinal
        y2         == IF o1 <= 0 THEN y1 - 1 ELSE y1
        o2         == IF o1 <= 0
                      THEN o1 + (IF IsLeap(y1 - 1) THEN 366 ELSE 365)
                      ELSE o1
    IN  (o2 - 1) + Ymd2Ord(y2, 1, 1)

\* the text f"{iso.year}-W{iso.week - 1}-1" matches "%G-W%V-%u": %G is four
\* digits, %V is 5[0-3]|0[1-9]|[1-4]\d|\d
StrptimeAccepts(iso_year, iso_week) ==
    iso_year \in 1000..9999 /\ iso_week \in 0..53

\* (variant: the calendar year in place of the ISO year)
LastWeekStartCalendarYear(t) ==
    StrptimeGVu(YearOf(t), IsoCalendar(t).week - 1, 1)

\* datetime.strptime(f"{iso.year}-W{iso.week - 1}-1", "%G-W%V-%u").date()
LastWeekStart(t) ==
    LET iso == IsoCalendar(t)
    IN  StrptimeGVu(iso.year, iso.week - 1, 1)

(***************************************************************************)
(* Filtering and aggregation.                                              *)
(***************************************************************************)
Levels == {"L1", "L2", "L3"}
Statuses == {"Open", "Closed", "In-Progress"}

\* (variant: end_date excluded)
DateInWindowExclusiveEnd(ts, s, e) == ~ts.nat /\ ts.day >= s /\ ts.day < e

\* (Request Date.dt.date >= start_date) & (Request Date.dt.date <= end_date)
DateInWindow(ts, s, e) == ~ts.nat /\ ts.day >= s /\ ts.day <= e

\* app.py: Request_Date_Only is the date of the timestamp, NaT for NaT; a
\* comparison with a null element is False
AppDateInWindow(ts, s, e) == ~ts.nat /\ ts.day >= s /\ ts.day <= e

RECURSIVE SumOver(_, _)
SumOver(f, S) ==
    IF S = {} THEN 0
    ELSE LET x == CHOOSE x \in S : TRUE IN f[x] + SumOver(f, S \ {x})

\* (variant: Open counted as everything that is not Closed)
CountStatusLoose(frame, s) ==
    Len(SelectSeq(frame, LAMBDA r : r.status = s \/ (s = "Open" /\ r.status # "Closed")))

\* (frame["Status"] == s).sum()
CountStatus(frame, s) == Len(SelectSeq(frame, LAMBDA r : r.status = s))

\* (variant: the guard lets a zero total through)
HasTicketsAlways(total) == total >= 0

\* if total_tickets > 0:
HasTickets(total) == total > 0

\* Series.round(0): round half to even of num / den (num >= 0, den > 0)
RoundHalfEven(num, den) ==
    LET q == num \div den
        r == num % den
    IN  IF 2 * r < den THEN q
        ELSE IF 2 * r > den THEN q + 1
        ELSE IF q % 2 = 0 THEN q ELSE q + 1

\* groupby(["L1/L2/L3", "Status"]).size().unstack(fill_value=0)
\*   .reindex(["L1", "L2", "L3"]).fillna(0): rows L1..L3, one column per
\* status that occurs in a row whose level and status are both present
LevelStatusTable(frame) ==
    LET grouped == SelectSeq(frame, LAMBDA r : r.level # NaN /\ r.status # NaN)
        columns == {grouped[i].status : i \in 1..Len(grouped)}
    IN  [l \in Levels |->
            [s \in columns |->
                Len(SelectSeq(grouped, LAMBDA r : r.level = l /\ r.status = s))]]

\* the category table: groupby("Category").size(), the rounded percentage of
\* the total, and the Closed and In-Progress counts per category
CategoryTable(frame, total) ==
    LET present == {frame[i].category : i \in 1..Len(frame)} \ {NaN}
    IN  [c \in present |->
            LET tickets == Len(SelectSeq(frame, LAMBDA r : r.category = c))
            IN  [Tickets    |-> tickets,
                 Percentage |-> RoundHalfEven(tickets * 100, total),
                 Closed     |-> Len(SelectSeq(frame, LAMBDA r :
                                   r.category = c /\ r.status = "Closed")),
                 InProgress |-> Len(SelectSeq(frame, LAMBDA r :
                                   r.category = c /\ r.status = "In-Progress"))]]

\* app.py count_level(level, status)
CountLevel(frame, level, status) ==
    Len(SelectSeq(frame, LAMBDA r : r.level = level /\ r.status = status))

\* int((closed_tickets / total_tickets) * 100); the float product truncates
\* to the exact quotient for every total up to 8
ClosurePct(closed, total) == (closed * 100) \div total

(***************************************************************************)
(* Inputs: the clock readings and the rows of the file.                    *)
(***************************************************************************)
SeqsUpTo(S, n) == UNION {[1..k -> S] : k \in 0..n}

\* reference dates: the documented scenario week, a leap day, the first ISO
\* week of 2024, and every day around the 2024/2025 and 2026/2027 year ends
\* (ISO year 2026 has 53 weeks)
TodaySet ==
    {Ymd2Ord(2024, 6, 12), Ymd2Ord(2024, 6, 10), Ymd2Ord(2024, 6, 16),
     Ymd2Ord(2024, 2, 29), Ymd2Ord(2024, 1, 3)}
    \cup (Ymd2Ord(2024, 12, 27) .. Ymd2Ord(2025, 1, 8))
    \cup (Ymd2Ord(2026, 12, 28) .. Ymd2Ord(2027, 1, 5))

WindowRows ==
    {Row(3, 6, 2024, 0, "Open", "L1", "Billing"),
     Row(9, 6, 2024, 1439, "Open", "L1", "Billing"),
     Row(10, 6, 2024, 0, "Open", "L1", "Billing"),
     Row(16, 6, 2024, 870, "Open", "L1", "Billing"),
     Row(30, 12, 2024, 0, "Open", "L1", "Billing"),
     Row(1, 1, 2025, 0, "Open", "L1", "Billing"),
     Row(5, 1, 2025, 870, "Open", "L1", "Billing"),
     Row(32, 12, 2024, 0, "Open", "L1", "Billing"),
     TextRow("empty", "Open", "L1", "Billing"),
     TextRow("junk", "Open", "L1", "Billing")}

AggRows ==
    {Row(10, 6, 2024, 0, "Closed", "L1", "Billing"),
     Row(11, 6, 2024, 0, "Open", "L2", "Billing"),
     Row(11, 6, 2024, 0, "In-Progress", "L3", "Login"),
     Row(10, 6, 2024, 0, "Closed", "L2", "Access"),
     Row(11, 6, 2024, 0, "closed ", "L1", "Login"),
     Row(10, 6, 2024, 0, "Open", NaN, "Access"),
     Row(4, 6, 2024, 0, "Closed", "L3", "Login"),
     Row(11, 6, 2024, 0, NaN, "L2", "Billing"),
     Row(10, 6, 2024, 0, "Closed", "L1", NaN),
     TextRow("junk", "Closed", "L1", "Billing")}

NoTable == [x \in {} |-> 0]

InitRest ==
    /\ pc = "start"
    /\ df = <<>>
    /\ view = "unset"
    /\ today = 0
    /\ start_date = 0
    /\ end_date = 0
    /\ filtered_df = <<>>
    /\ total_tickets = 0
    /\ open_tickets = 0
    /\ closed_tickets = 0
    /\ in_progress = 0
    /\ closure = [branch |-> "none", closure_pct |-> 0, pending_pct |-> 0]
    /\ ownership = NoTable
    /\ cat_view = "none"
    /\ cat = NoTable
    /\ level_status = NoTable
    /\ level_summary = NoTable
    /\ divisions = 0
    /\ err = "none"

\* dashboard.py reads the clock in load_dashboard_data (cached for 60 s) and
\* again at the view selection; app.py reads it once
InitClocks(days) ==
    /\ script \in {"dashboard", "app"}
    /\ clock_load \in days
    /\ clock_run \in IF script = "dashboard"
                     THEN {clock_load, clock_load + 1}
                     ELSE {clock_load}

Init ==
    /\ InitClocks(TodaySet)
    /\ raw \in SeqsUpTo(WindowRows, MaxRowsW)
    /\ InitRest

InitAgg ==
    /\ InitClocks({Ymd2Ord(2024, 6, 12)})
    /\ raw \in SeqsUpTo(AggRows, MaxRows)
    /\ InitRest

InitAnyView ==
    /\ script = "dashboard"
    /\ clock_load \in TodaySet
    /\ clock_run = clock_load
    /\ raw \in SeqsUpTo(WindowRows, MaxRowsW)
    /\ InitRest

(***************************************************************************)
(* dashboard.py                                                            *)
(***************************************************************************)
\* df = load_dashboard_data()
LoadDashboardData ==
    /\ script = "dashboard" /\ pc = "start"
    /\ df' = LoadDashboardFrame(raw, YearOf(clock_load))
    /\ pc' = "loaded"
    /\ UNCHANGED <<script, raw, clock_load, clock_run, view, today,
                   start_date, end_date, filtered_df, total_tickets,
                   open_tickets, closed_tickets, in_progress, closure,
                   ownership, cat_view, cat, level_status, level_summary,
                   divisions, err>>

\* view = st.sidebar.selectbox(...); today = datetime.today().date()
SelectFrom(options) ==
    /\ script = "dashboard" /\ pc = "loaded"
    /\ \E v \in options : view' = v
    /\ today' = clock_run
    /\ pc' = "view"
    /\ UNCHANGED <<script, raw, clock_load, clock_run, df,
                   start_date, end_date, filtered_df, total_tickets,
                   open_tickets, closed_tickets, in_progress, closure,
                   ownership, cat_view, cat, level_status, level_summary,
                   divisions, err>>

SelectView == SelectFrom(ViewOptions)

\* the same code handed a selector the select box does not offer
SelectAnyView == SelectFrom(ViewOptions \cup {"Yesterday"})

SetWindow(s, e) ==
    /\ start_date' = s
    /\ end_date' = e
    /\ pc' = "window"
    /\ UNCHANGED <<script, raw, clock_load, clock_run, df, view, today,
                   filtered_df, total_tickets,
                   open_tickets, closed_tickets, in_progress, closure,
                   ownership, cat_view, cat, level_status, level_summary,
                   divisions, err>>

WindowThisWeek ==
    /\ script = "dashboard" /\ pc = "view"
    /\ view = "This Week"
    /\ SetWindow(ThisWeekStart(today), ThisWeekStart(today) + 6)

\* strptime raises ValueError when the text does not match the format
WindowLastWeek ==
    /\ script = "dashboard" /\ pc = "view"
    /\ view # "This Week" /\ view = "Last Week"
    /\ IF StrptimeAccepts(IsoCalendar(today).year, IsoCalendar(today).week - 1)
       THEN SetWindow(LastWeekStart(today), LastWeekStart(today) + 6)
       ELSE /\ err' = "ValueError"
            /\ pc' = "error"
            /\ UNCHANGED <<script, raw, clock_load, clock_run, df, view, today,
                           start_date, end_date, filtered_df, total_tickets,
                           open_tickets, closed_tickets, in_progress, closure,
                           ownership, cat_view, cat, level_status,
                           level_summary, divisions>>

WindowThisMonth ==
    /\ script = "dashboard" /\ pc = "view"
    /\ view \notin {"This Week", "Last Week"} /\ view = "This Month"
    /\ SetWindow(ReplaceDay1(today), today)

\* the else branch: every other selector
WindowThisYear ==
    /\ script = "dashboard" /\ pc = "view"
    /\ view \notin {"This Week", "Last Week", "This Month"}
    /\ SetWindow(ReplaceMonth1Day1(today), today)

\* filtered_df = df[(date >= start_date) & (date <= end_date)]
FilterDashboard ==
    /\ script = "dashboard" /\ pc = "window"
    /\ filtered_df' =
          SelectSeq(df, LAMBDA r : DateInWindow(r.ts, start_date, end_date))
    /\ pc' = "filtered"
    /\ UNCHANGED <<script, raw, clock_load, clock_run, df, view, today,
                   start_date, end_date, total_tickets,
                   open_tickets, closed_tickets, in_progress, closure,
                   ownership, cat_view, cat, level_status, level_summary,
                   divisions, err>>

TopKPIs ==
    /\ script = "dashboard" /\ pc = "filtered"
    /\ total_tickets' = Len(filtered_df)
    /\ open_tickets' = CountStatus(filtered_df, "Open")
    /\ closed_tickets' = CountStatus(filtered_df, "Closed")
    /\ in_progress' = CountStatus(filtered_df, "In-Progress")
    /\ pc' = "kpis"
    /\ UNCHANGED <<script, raw, clock_load, clock_run, df, view, today,
                   start_date, end_date, filtered_df, closure,
                   ownership, cat_view, cat, level_status, level_summary,
                   divisions, err>>

\* the inflow vs closure block; a division by a zero total raises
ClosureRate ==
    /\ script = "dashboard" /\ pc = "kpis"
    /\ IF HasTickets(total_tickets)
       THEN /\ divisions' = divisions + 1
            /\ IF total_tickets = 0
               THEN /\ err' = "ZeroDivisionError"
                    /\ pc' = "error"
                    /\ UNCHANGED closure
               ELSE /\ closure' =
                         [branch |-> "computed",
                          closure_pct |-> ClosurePct(closed_tickets, total_tickets),
                          pending_pct |->
                              100 - ClosurePct(closed_tickets, total_tickets)]
                    /\ pc' = "closure"
                    /\ UNCHANGED err
       ELSE /\ closure' = [closure EXCEPT !.branch = "nodata"]
            /\ pc' = "closure"
            /\ UNCHANGED <<divisions, err>>
    /\ UNCHANGED <<script, raw, clock_load, clock_run, df, view, today,
                   start_date, end_date, filtered_df, total_tickets,
                   open_tickets, closed_tickets, in_progress,
                   ownership, cat_view, cat, level_status, level_summary>>

Ownership ==
    /\ script = "dashboard" /\ pc = "closure"
    /\ ownership' = LevelStatusTable(filtered_df)
    /\ pc' = "ownership"
    /\ UNCHANGED <<script, raw, clock_load, clock_run, df, view, today,
                   start_date, end_date, filtered_df, total_tickets,
                   open_tickets, closed_tickets, in_progress, closure,
                   cat_view, cat, level_status, level_summary,
                   divisions, err>>

\* the category percentage view; a division by a zero total raises
CategoryView ==
    /\ script = "dashboard" /\ pc = "ownership"
    /\ IF HasTickets(total_tickets)
       THEN /\ divisions' = divisions + 1
            /\ IF total_tickets = 0
               THEN /\ err' = "ZeroDivisionError"
                    /\ pc' = "error"
                    /\ UNCHANGED <<cat, cat_view>>
               ELSE /\ cat' = CategoryTable(filtered_df, total_tickets)
                    /\ cat_view' = "table"
                    /\ pc' = "category"
                    /\ UNCHANGED err
       ELSE /\ cat_view' = "nodata"
            /\ pc' = "category"
            /\ UNCHANGED <<cat, divisions, err>>
    /\ UNCHANGED <<script, raw, clock_load, clock_run, df, view, today,
                   start_date, end_date, filtered_df, total_tickets,
                   open_tickets, closed_tickets, in_progress, closure,
                   ownership, level_status, level_summary>>

\* the visual insights tab: level_status
VisualInsights ==
    /\ script = "dashboard" /\ pc = "category"
    /\ level_status' = LevelStatusTable(filtered_df)
    /\ pc' = "done"
    /\ UNCHANGED <<script, raw, clock_load, clock_run, df, view, today,
                   start_date, end_date, filtered_df, total_tickets,
                   open_tickets, closed_tickets, in_progress, closure,
                   ownership, cat_view, cat, level_summary,
                   divisions, err>>

(***************************************************************************)
(* app.py                                                                  *)
(***************************************************************************)
\* read_excel, to_datetime: unparsable dates stay in the frame as NaT
AppLoad ==
    /\ script = "app" /\ pc = "start"
    /\ df' = ParsedFrame(raw)
    /\ pc' = "loaded"
    /\ UNCHANGED <<script, raw, clock_load, clock_run, view, today,
                   start_date, end_date, filtered_df, total_tickets,
                   open_tickets, closed_tickets, in_progress, closure,
                   ownership, cat_view, cat, level_status, level_summary,
                   divisions, err>>

AppCurrentWeek ==
    /\ script = "app" /\ pc = "loaded"
    /\ today' = clock_run
    /\ start_date' = clock_run - Weekday(clock_run)
    /\ end_date' = (clock_run - Weekday(clock_run)) + 6
    /\ pc' = "window"
    /\ UNCHANGED <<script, raw, clock_load, clock_run, df, view,
                   filtered_df, total_tickets,
                   open_tickets, closed_tickets, in_progress, closure,
                   ownership, cat_view, cat, level_status, level_summary,
                   divisions, err>>

AppWeeklyFilter ==
    /\ script = "app" /\ pc = "window"
    /\ filtered_df' =
          SelectSeq(df, LAMBDA r : AppDateInWindow(r.ts, start_date, end_date))
    /\ pc' = "filtered"
    /\ UNCHANGED <<script, raw, clock_load, clock_run, df, view, today,
                   start_date, end_date, total_tickets,
                   open_tickets, closed_tickets, in_progress, closure,
                   ownership, cat_view, cat, level_status, level_summary,
                   divisions, err>>

AppTopSummary ==
    /\ script = "app" /\ pc = "filtered"
    /\ total_tickets' = Len(filtered_df)
    /\ open_tickets' = Len(SelectSeq(filtered_df, LAMBDA r : r.status = "Open"))
    /\ closed_tickets' = Len(SelectSeq(filtered_df, LAMBDA r : r.status = "Closed"))
    /\ in_progress' = Len(SelectSeq(filtered_df, LAMBDA r : r.status = "In-Progress"))
    /\ pc' = "kpis"
    /\ UNCHANGED <<script, raw, clock_load, clock_run, df, view, today,
                   start_date, end_date, filtered_df, closure,
                   ownership, cat_view, cat, level_status, level_summary,
                   divisions, err>>

AppLevelSummary ==
    /\ script = "app" /\ pc = "kpis"
    /\ level_summary' =
          [l \in Levels |-> [s \in Statuses |-> CountLevel(filtered_df, l, s)]]
    /\ pc' = "done"
    /\ UNCHANGED <<script, raw, clock_load, clock_run, df, view, today,
                   start_date, end_date, filtered_df, total_tickets,
                   open_tickets, closed_tickets, in_progress, closure,
                   ownership, cat_view, cat, level_status,
                   divisions, err>>

Dashboard ==
    \/ LoadDashboardData
    \/ WindowThisWeek
    \/ WindowLastWeek
    \/ WindowThisMonth
    \/ WindowThisYear
    \/ FilterDashboard
    \/ TopKPIs
    \/ ClosureRate
    \/ Ownership
    \/ CategoryView
    \/ VisualInsights

App ==
    \/ AppLoad
    \/ AppCurrentWeek
    \/ AppWeeklyFilter
    \/ AppTopSummary
    \/ AppLevelSummary

Next == SelectView \/ Dashboard \/ App

NextAnyView == SelectAnyView \/ Dashboard

\* the two scripts over files whose rows differ in their dates
Spec == Init /\ [][Next]_vars

\* the two scripts over files whose rows differ in status, level and category
SpecAgg == InitAgg /\ [][Next]_vars

\* the window computation of dashboard.py over every selector value
SpecAnyView == InitAnyView /\ [][NextAnyView]_vars

(***************************************************************************)
(* Properties.                                                             *)
(***************************************************************************)
AfterWindow == {"window", "filtered", "kpis", "closure", "ownership",
                "category", "done"}
AfterFilter == AfterWindow \ {"window"}
AfterKPIs == AfterFilter \ {"filtered"}

\* the date text of a row names a day of the calendar
IsCalendarDate(r) ==
    r.txt = "dmy" /\ r.m \in 1..12 /\ r.d >= 1 /\ r.d <= DaysInMonth(r.y, r.m)

InFiltered(idx) == \E j \in 1..Len(filtered_df) : filtered_df[j].idx = idx

\* C1: once the filter has run, a loaded record with a valid request date is
\* in the filtered set exactly when start_date <= its calendar date <=
\* end_date (both ends included, whatever its time of day), and the filtered
\* set holds loaded records only.
C1_FilterIffInWindow ==
    pc \in AfterFilter =>
        /\ \A i \in 1..Len(df) :
              ~df[i].ts.nat =>
                  (InFiltered(df[i].idx)
                      <=> (start_date <= df[i].ts.day /\ df[i].ts.day <= end_date))
        /\ \A j \in 1..Len(filtered_df) :
              \E i \in 1..Len(df) : df[i] = filtered_df[j]

\* a record dated exactly end_date, with a time of day in the file, is kept
C1_Witness ==
    /\ script = "dashboard" /\ pc = "filtered"
    /\ \E j \in 1..Len(filtered_df) :
          /\ filtered_df[j].ts.day = end_date
          /\ raw[filtered_df[j].idx].tod > 0

C3_ThisWeekWindow ==
    (pc \in AfterWindow /\ (script = "app" \/ view = "This Week")) =>
        /\ start_date = today - Weekday(today)
        /\ Weekday(start_date) = 0
        /\ end_date = start_date + 6
        /\ Weekday(end_date) = 6
        /\ start_date <= today /\ today <= end_date
        /\ today = Ymd2Ord(2024, 6, 12) =>
              (start_date = Ymd2Ord(2024, 6, 10) /\ end_date = Ymd2Ord(2024, 6, 16))

\* This Week computed on a Sunday whose week began in the year before
C3_Witness ==
    /\ script = "dashboard" /\ view = "This Week" /\ pc = "window"
    /\ Weekday(today) = 6
    /\ YearOf(start_date) < YearOf(today)

\* C4: when the category table is shown (total > 0) its integer percentages
\* sum to exactly 100.
C4_PercentagesSumTo100 ==
    (script = "dashboard" /\ cat_view = "table") =>
        SumOver([c \in DOMAIN cat |-> cat[c].Percentage], DOMAIN cat) = 100

PairCount(l, s) ==
    Cardinality({j \in 1..Len(filtered_df) :
                    filtered_df[j].level = l /\ filtered_df[j].status = s})

Reports(table) ==
    \A l \in Levels, s \in Statuses :
        /\ l \in DOMAIN table
        /\ s \in DOMAIN table[l]
        /\ table[l][s] = PairCount(l, s)

\* C6: the level/status table reports, for every level in {L1, L2, L3} and
\* every status in {Open, Closed, In-Progress}, the number of filtered
\* records with that level and status, 0 where there are none.
C6_AllPairsReported ==
    /\ (script = "dashboard" /\ pc \in {"ownership", "category", "done"})
          => Reports(ownership)
    /\ (script = "dashboard" /\ pc = "done") => Reports(level_status)
    /\ (script = "app" /\ pc = "done") => Reports(level_summary)

StatusIs(S) == {j \in 1..Len(filtered_df) : filtered_df[j].status \in S}

\* C7: the Open, Closed and In-Progress counts are the numbers of filtered
\* records with exactly that status, and together with the number of records
\* of any other status they add up to the total.
C7_StatusCountsPartition ==
    pc \in AfterKPIs =>
        /\ open_tickets = Cardinality(StatusIs({"Open"}))
        /\ closed_tickets = Cardinality(StatusIs({"Closed"}))
        /\ in_progress = Cardinality(StatusIs({"In-Progress"}))
        /\ open_tickets + closed_tickets + in_progress
              + Cardinality((1..Len(filtered_df)) \ StatusIs(Statuses))
              = total_tickets

\* counts taken over a set holding Open, Closed and other-status records
C7_Witness ==
    /\ script = "dashboard" /\ pc = "kpis"
    /\ open_tickets > 0 /\ closed_tickets > 0
    /\ (1..Len(filtered_df)) \ StatusIs(Statuses) # {}

\* C8: with an empty filtered set the aggregation runs to its end without an
\* error: total and the three status counts are 0, no category table is
\* built, and neither the closure rate nor the category percentage divides
\* by the total (both take the no-data branch).
C8_EmptySetNoDivision ==
    (filtered_df = <<>> /\ pc \in (AfterKPIs \cup {"error"})) =>
        /\ pc # "error" /\ err = "none"
        /\ total_tickets = 0 /\ open_tickets = 0
        /\ closed_tickets = 0 /\ in_progress = 0
        /\ divisions = 0
        /\ (script = "dashboard" /\ pc # "kpis") => closure.branch = "nodata"
        /\ (script = "dashboard" /\ pc \in {"category", "done"}) =>
              (cat_view = "nodata" /\ DOMAIN cat = {})

\* the dashboard run to its end over a file whose rows all fall outside the
\* window
C8_Witness ==
    /\ script = "dashboard" /\ pc = "done"
    /\ Len(df) > 0 /\ filtered_df = <<>>

FromItsRow(rec) ==
    /\ ~rec.ts.nat
    /\ IsCalendarDate(raw[rec.idx])
    /\ rec.ts.day = Ymd2Ord(raw[rec.idx].y, raw[rec.idx].m, raw[rec.idx].d)

C10_FilteredInLoadYear ==
    script = "dashboard" =>
        /\ \A i \in 1..Len(df) : YearOf(df[i].ts.day) = YearOf(clock_load)
        /\ \A j \in 1..Len(filtered_df) :
              YearOf(filtered_df[j].ts.day) = YearOf(clock_load)
        /\ \A i \in 1..Len(raw) :
              (IsCalendarDate(raw[i]) /\ raw[i].y # YearOf(clock_load))
                  => ~InFiltered(i)

\* a week window reaching into the year before the load year, a row dated in
\* that part of the window, and the row missing from the filtered set
C10_Witness ==
    /\ script = "dashboard" /\ pc = "filtered"
    /\ view \in {"This Week", "Last Week"}
    /\ \E i \in 1..Len(raw) :
          /\ IsCalendarDate(raw[i])
          /\ raw[i].y # YearOf(clock_load)
          /\ start_date <= Ymd2Ord(raw[i].y, raw[i].m, raw[i].d)
          /\ Ymd2Ord(raw[i].y, raw[i].m, raw[i].d) <= end_date
          /\ ~InFiltered(i)

====
